---------------------------- MODULE Spec2Model ----------------------------
(***************************************************************************)
(* A model of typo (src/typo.go): the tokenizer, the known-word filter,    *)
(* the digram/trigram frequency tables, the peculiarity score and the      *)
(* report, as the state machine that main() runs.                          *)
(*                                                                         *)
(* Text is a sequence of code points.  All the characters used are ASCII,  *)
(* so a byte offset in a Go string is an index in the sequence minus one.  *)
(***************************************************************************)
EXTENDS Integers, Sequences, FiniteSets, Bags, TLC

VARIABLES
    pc,           \* where main() is: "known", "add", "repeats", "stats", "spell", "done", "exit", "panic"
    exitCode,     \* the process's exit status once pc is "done", "exit" or "panic"; -1 while running
    nTypos,       \* flag -n
    noRepeats,    \* flag -r
    threshold,    \* flag -t
    filterHTML,   \* flag -html
    knownIdx,     \* index in knownWordsFiles of the next known-words file main() loads
    knownFS,      \* what the file system answered for each known-words file main() has tried
    known,        \* the known-word set
    input,        \* the primary input: [name, status, content]
    words,        \* the word list
    diCounts,     \* digram -> count, a bag
    triCounts,    \* trigram -> count, a bag
    infAsInt,     \* what int(+Inf) gave in stats(), 0 until stats() has run
    stderr,       \* the warnings main() wrote
    stdout        \* the lines printed, in order

vars == << pc, exitCode, nTypos, noRepeats, threshold, filterHTML, knownIdx, knownFS,
           known, input, words, diCounts, triCounts, infAsInt, stderr, stdout >>

---------------------------------------------------------------------------
(* Bounds of the model.                                                    *)

\* The longest primary input, in characters.
MaxLen == 6

---------------------------------------------------------------------------
(* Characters.                                                             *)

\* '.', the boundary marker of digrams and trigrams.
Dot == 46
\* '<' and '>', the ends of an HTML tag.
Lt == 60
Gt == 62
\* ' ' and '\n'.
Space == 32
Newline == 10
\* '\r', which bufio.ScanLines drops from the end of a line.
CarriageReturn == 13
\* utf8.RuneError, what DecodeRuneInString gives for an empty string.
RuneError == 65533

\* unicode.IsSpace on the ASCII range.
IsSpace(c) == c \in {9, 10, 11, 12, 13, 32}

\* unicode.IsPunct on the ASCII range: categories Pc Pd Ps Pe Pi Pf Po.
IsPunct(c) == c \in {33, 34, 35, 37, 38, 39, 40, 41, 42, 44, 45, 46, 47, 58, 59,
                     63, 64, 91, 92, 93, 95, 123, 125}

\* unicode.IsLetter, unicode.IsLower and unicode.ToLower on the ASCII range.
IsUpper(c) == c \in 65..90
IsLower(c) == c \in 97..122
IsLetter(c) == IsUpper(c) \/ IsLower(c)
ToLowerRune(c) == IF IsUpper(c) THEN c + 32 ELSE c

\* strings.ToLower.
ToLower(s) == [i \in 1..Len(s) |-> ToLowerRune(s[i])]

\* Go's s[from:to] and s[from:], with Go's zero-based offsets.
Slice(s, from, to) == SubSeq(s, from + 1, to)
SliceFrom(s, from) == SubSeq(s, from + 1, Len(s))

\* strings.IndexRune(s, c): the offset of the first c in s, or -1.
IndexRune(s, c) ==
    IF \E i \in 1..Len(s) : s[i] = c
    THEN (CHOOSE i \in 1..Len(s) : s[i] = c /\ \A j \in 1..(i - 1) : s[j] # c) - 1
    ELSE -1

\* strings.LastIndex(s, c) for a one-character c: the offset of the last c, or -1.
LastIndex(s, c) ==
    IF \E i \in 1..Len(s) : s[i] = c
    THEN (CHOOSE i \in 1..Len(s) : s[i] = c /\ \A j \in (i + 1)..Len(s) : s[j] # c) - 1
    ELSE -1

\* strings.TrimLeftFunc(s, unicode.IsPunct).
TrimLeftPunct(s) ==
    IF \E i \in 1..Len(s) : ~IsPunct(s[i])
    THEN SubSeq(s, CHOOSE i \in 1..Len(s) : ~IsPunct(s[i]) /\ \A j \in 1..(i - 1) : IsPunct(s[j]),
                Len(s))
    ELSE << >>

\* strings.TrimRightFunc(s, unicode.IsPunct).
TrimRightPunct(s) ==
    IF \E i \in 1..Len(s) : ~IsPunct(s[i])
    THEN SubSeq(s, 1,
                CHOOSE i \in 1..Len(s) : ~IsPunct(s[i]) /\ \A j \in (i + 1)..Len(s) : IsPunct(s[j]))
    ELSE << >>

\* Go's < on strings: bytewise lexicographic order.
RECURSIVE StrLess(_, _)
StrLess(s, t) ==
    IF t = << >> THEN FALSE
    ELSE IF s = << >> THEN TRUE
    ELSE IF s[1] # t[1] THEN s[1] < t[1]
    ELSE StrLess(Tail(s), Tail(t))

---------------------------------------------------------------------------
(* The tokenizer: add, addWord, leadingHTMLLen, trailingHTMLLen.           *)

\* dropCR of bufio: a line without its final carriage return.
dropCR(data) ==
    IF Len(data) > 0 /\ data[Len(data)] = CarriageReturn
    THEN Slice(data, 0, Len(data) - 1)
    ELSE data

\* bufio.ScanLines: the lines of a file's content, without their newlines and
\* without a carriage return before them; a final line with no newline counts,
\* an empty one after the last newline does not.
RECURSIVE ScanLines(_)
ScanLines(content) ==
    IF content = << >> THEN << >>
    ELSE LET n == IndexRune(content, Newline)
         IN IF n < 0 THEN << dropCR(content) >>
            ELSE << dropCR(Slice(content, 0, n)) >> \o ScanLines(SliceFrom(content, n + 1))

RECURSIVE leadingHTMLLen(_)
leadingHTMLLen(text) ==
    IF Len(text) = 0 \/ text[1] # Lt THEN 0
    ELSE LET n == IndexRune(text, Gt)
         IN IF n < 0 THEN 0
            ELSE (n + 1) + leadingHTMLLen(SliceFrom(text, n + 1))

\* The recursive call is on text[:len(text)-n], as the code has it.
RECURSIVE trailingHTMLLen(_)
trailingHTMLLen(text) ==
    IF Len(text) = 0 \/ text[Len(text)] # Gt THEN 0
    ELSE LET n == LastIndex(text, Lt)
         IN IF n < 0 THEN 0
            ELSE (Len(text) - n) + trailingHTMLLen(Slice(text, 0, Len(text) - n))

onlyLower(s) == \A i \in 1..Len(s) : IsLower(s[i])

\* The Word addWord builds; lower is the string word.lower points to.
NewWord(text, file, lineNum, byteNum) ==
    [ text |-> text,
      lower |-> IF onlyLower(text) THEN text ELSE ToLower(text),
      file |-> file, lineNum |-> lineNum, byteNum |-> byteNum, score |-> 0 ]

\* What add and addWord give back: the word list, and whether a slice bound
\* went out of range (a run-time panic, which ends the process).
Ok(ws) == [panic |-> FALSE, ws |-> ws]
Panicked(ws) == [panic |-> TRUE, ws |-> ws]

\* The tail of addWord: the letter test and the append.
appendWord(ws, text, file, lineNum, byteNum) ==
    IF \E i \in 1..Len(text) : IsLetter(text[i])
    THEN Append(ws, NewWord(text, file, lineNum, byteNum))
    ELSE ws

\* The -html block of addWord up to its second slice, on the text trimmed of
\* punctuation: the text kept, or a panic when the slice bound len(text)-n is
\* below zero.
stripHTML(text) ==
    LET t3 == SliceFrom(text, leadingHTMLLen(text))
        n == trailingHTMLLen(t3)
    IN IF n > Len(t3) THEN [panic |-> TRUE, text |-> t3]
       ELSE [panic |-> FALSE, text |-> Slice(t3, 0, Len(t3) - n)]

addWord(ws, text, file, lineNum, byteNum, html) ==
    LET t1 == TrimLeftPunct(text)
        b1 == byteNum + (Len(text) - Len(t1))
        t2 == TrimRightPunct(t1)
    IN IF ~html THEN Ok(appendWord(ws, t2, file, lineNum, b1))
       ELSE LET n == leadingHTMLLen(t2)
                s == stripHTML(t2)
            IN IF s.panic THEN Panicked(ws)
               ELSE IF Len(s.text) = 0 THEN Ok(ws)
               ELSE LET t5 == TrimLeftPunct(s.text)
                    IN Ok(appendWord(ws, TrimRightPunct(t5), file, lineNum,
                                     b1 + n + (Len(s.text) - Len(t5))))

\* The loop of add over one line, from offset i - 1 on: r is the result so far,
\* inWord and wordStart the loop's variables.
RECURSIVE scanLine(_, _, _, _, _, _, _, _)
scanLine(r, line, file, lineNum, html, i, inWord, wordStart) ==
    IF r.panic THEN r
    ELSE IF i > Len(line)
    THEN IF inWord
         THEN addWord(r.ws, SliceFrom(line, wordStart), file, lineNum, wordStart + 1, html)
         ELSE r
    ELSE IF inWord /\ IsSpace(line[i])
    THEN scanLine(addWord(r.ws, Slice(line, wordStart, i - 1), file, lineNum, wordStart + 1, html),
                  line, file, lineNum, html, i + 1, FALSE, wordStart)
    ELSE IF ~inWord /\ ~IsSpace(line[i])
    THEN scanLine(r, line, file, lineNum, html, i + 1, TRUE, i - 1)
    ELSE scanLine(r, line, file, lineNum, html, i + 1, inWord, wordStart)

\* The loop of add over the lines of a file, from line k on.
RECURSIVE addLines(_, _, _, _, _)
addLines(r, lines, file, html, k) ==
    IF r.panic \/ k > Len(lines) THEN r
    ELSE addLines(scanLine(r, lines[k], file, k, html, 1, FALSE, 1), lines, file, html, k + 1)

\* add, once read has given the file's content: the word list after it.
add(ws, file, content, html) == addLines(Ok(ws), ScanLines(content), file, html, 1)

---------------------------------------------------------------------------
(* The frequency tables and the score: stats, scanTrigrams, addDigrams,    *)
(* triScore, score.                                                        *)

\* The loop of scanTrigrams: t is the trigram held, rest the runes still to
\* come, out the trigrams handed to fn so far.
RECURSIVE trigramLoop(_, _, _)
trigramLoop(t, rest, out) ==
    IF rest = << >> THEN Append(out, << t[2], t[3], Dot >>)
    ELSE trigramLoop(<< t[2], t[3], Head(rest) >>, Tail(rest),
                     Append(out, << t[2], t[3], Head(rest) >>))

\* scanTrigrams with fn called on the priming trigram too.
scanTrigramsSeeded(word) ==
    IF word = << >> THEN trigramLoop(<< Dot, Dot, RuneError >>, << >>, << << Dot, Dot, RuneError >> >>)
    ELSE trigramLoop(<< Dot, Dot, Head(word) >>, Tail(word), << << Dot, Dot, Head(word) >> >>)

\* scanTrigrams: the trigrams fn is called with, in order.  The first trigram,
\* {'.', '.', rune}, primes the loop and is not handed to fn.
scanTrigrams(word) ==
    IF word = << >> THEN trigramLoop(<< Dot, Dot, RuneError >>, << >>, << >>)
    ELSE trigramLoop(<< Dot, Dot, Head(word) >>, Tail(word), << >>)

\* The loop of addDigrams: the digrams counted, in order.
RECURSIVE digramLoop(_, _, _)
digramLoop(d, rest, out) ==
    IF rest = << >> THEN Append(out, << d[2], Dot >>)
    ELSE digramLoop(<< d[2], Head(rest) >>, Tail(rest), Append(out, << d[2], Head(rest) >>))

addDigrams(word) == digramLoop(<< Dot, Dot >>, word, << >>)

\* counts[key]++ for each key of keys, in order.
RECURSIVE incAll(_, _)
incAll(counts, keys) ==
    IF keys = << >> THEN counts
    ELSE incAll(counts (+) SetToBag({Head(keys)}), Tail(keys))

\* The first loop of stats: the two tables after the words from k on are added.
RECURSIVE countDigrams(_, _, _)
countDigrams(counts, ws, k) ==
    IF k > Len(ws) THEN counts
    ELSE countDigrams(incAll(counts, addDigrams(ws[k].text)), ws, k + 1)

RECURSIVE countTrigrams(_, _, _)
countTrigrams(counts, ws, k) ==
    IF k > Len(ws) THEN counts
    ELSE countTrigrams(incAll(counts, scanTrigrams(ws[k].text)), ws, k + 1)

\* float64 arithmetic is modelled in exact fixed point.  A number is a sequence
\* of digits in base BigBase, the least significant first, of any length; a
\* logarithm is held in units of BigBase^-LnFrac (16 decimal places, the
\* precision of a float64), rounded to the nearest unit.
BigBase == 10000
LnFrac == 4

Digit(x, k) == IF k <= Len(x) THEN x[k] ELSE 0

\* The digits of an integer 0 <= v < 2^31.
BigOf(v) == << v % BigBase, (v \div BigBase) % BigBase, v \div (BigBase * BigBase) >>

BigIsZero(x) == \A k \in 1..Len(x) : x[k] = 0

\* Carries propagated from digit k on.
RECURSIVE bigCarry(_, _, _)
bigCarry(raw, k, c) ==
    IF k > Len(raw) THEN << >>
    ELSE << (raw[k] + c) % BigBase >> \o bigCarry(raw, k + 1, (raw[k] + c) \div BigBase)

\* Borrows propagated from digit k on; raw holds digit differences.
RECURSIVE bigBorrow(_, _, _)
bigBorrow(raw, k, b) ==
    IF k > Len(raw) THEN << >>
    ELSE IF raw[k] - b < 0
         THEN << raw[k] - b + BigBase >> \o bigBorrow(raw, k + 1, 1)
         ELSE << raw[k] - b >> \o bigBorrow(raw, k + 1, 0)

\* Digit k of the product before carries: the sum of x[i] * y[k + 1 - i].
RECURSIVE bigDot(_, _, _, _)
bigDot(x, y, k, i) ==
    IF i > k \/ i > Len(x) THEN 0
    ELSE x[i] * Digit(y, k + 1 - i) + bigDot(x, y, k, i + 1)

BigAdd(x, y) ==
    bigCarry([k \in 1..((IF Len(x) > Len(y) THEN Len(x) ELSE Len(y)) + 1) |->
                 Digit(x, k) + Digit(y, k)], 1, 0)

BigMul(x, y) == bigCarry([k \in 1..(Len(x) + Len(y)) |-> bigDot(x, y, k, 1)], 1, 0)

\* x <= y, compared from digit k down.
RECURSIVE bigLeqFrom(_, _, _)
bigLeqFrom(x, y, k) ==
    IF k = 0 THEN TRUE
    ELSE IF Digit(x, k) # Digit(y, k) THEN Digit(x, k) < Digit(y, k)
    ELSE bigLeqFrom(x, y, k - 1)

BigLeq(x, y) == bigLeqFrom(x, y, IF Len(x) > Len(y) THEN Len(x) ELSE Len(y))

\* x - y, for y <= x.
BigSub(x, y) == bigBorrow([k \in 1..Len(x) |-> x[k] - Digit(y, k)], 1, 0)

\* math.Log of the counts 1..64, in units of BigBase^-LnFrac.
Ln(k) ==
    << <<    0,    0,    0,    0,    0 >>, << 9453,  559, 4718, 6931,    0 >>,
       << 1097, 8668, 1228,  986,    1 >>, << 8906, 1119, 9436, 3862,    1 >>,
       << 1004, 2434, 3791, 6094,    1 >>, <<  550, 9228, 5946, 7917,    1 >>,
       << 3133, 9055, 1014, 9459,    1 >>, << 8359, 1679, 4154,  794,    2 >>,
       << 2194, 7336, 2457, 1972,    2 >>, <<  457, 2994, 8509, 3025,    2 >>,
       << 3705, 2798, 9527, 3978,    2 >>, <<    3, 9788,  664, 4849,    2 >>,
       << 5367, 7461, 4935, 5649,    2 >>, << 2586, 9615, 5732, 6390,    2 >>,
       << 2101, 1102, 5020, 7080,    2 >>, << 7812, 2239, 8872, 7725,    2 >>,
       << 2161, 4056, 1334, 8332,    2 >>, << 1647, 7896, 7175, 8903,    2 >>,
       << 4405, 9166, 3897, 9444,    2 >>, << 9910, 3553, 3227, 9957,    2 >>,
       << 4230, 7723, 2243,  445,    3 >>, << 3159, 3358, 4245,  910,    3 >>,
       << 1497, 5929, 9421, 1354,    3 >>, << 9456,  347, 5383, 1780,    3 >>,
       << 2007, 4868, 7582, 2188,    3 >>, << 4820, 8021, 9653, 2580,    3 >>,
       << 3291, 6004, 3686, 2958,    3 >>, << 2039,  175,  451, 3322,    3 >>,
       << 4740, 9986, 9582, 3672,    3 >>, << 1554, 1662, 9738, 4011,    3 >>,
       << 1462, 4485, 8720, 4339,    3 >>, << 7265, 2799, 3590, 4657,    3 >>,
       << 4802, 1466,  756, 4965,    3 >>, << 1614, 4616, 6052, 5263,    3 >>,
       << 4137, 1489, 4806, 5553,    3 >>, << 1100, 8456, 1893, 5835,    3 >>,
       << 2244, 2644, 1791, 6109,    3 >>, << 3858, 9726, 8615, 6375,    3 >>,
       << 6464, 6129, 6164, 6635,    3 >>, << 9363, 4113, 7945, 6888,    3 >>,
       << 3078, 6704, 7206, 7135,    3 >>, << 3683, 8283, 6961, 7376,    3 >>,
       << 5624, 5693,   11, 7612,    3 >>, << 2612, 3918, 8963, 7841,    3 >>,
       << 3198, 9770, 6248, 8066,    3 >>, <<  950, 6489, 4139, 8286,    3 >>,
       <<  586, 1710, 4760, 8501,    3 >>, << 8909,  907,  101, 8712,    3 >>,
       << 6266, 8110, 2029, 8918,    3 >>, << 1461, 5428, 2300, 9120,    3 >>,
       << 3258, 2724, 2563, 9318,    3 >>, << 4274, 8581, 4371, 9512,    3 >>,
       << 1218, 3552, 9191, 9702,    3 >>, << 2744, 6564, 8404, 9889,    3 >>,
       << 4709, 5232, 3318,   73,    4 >>, << 1492,  735, 5169,  253,    4 >>,
       << 5502, 7834, 5126,  430,    4 >>, << 4193,  546, 4301,  604,    4 >>,
       << 7195, 3905, 3744,  775,    4 >>, << 1007, 2222, 4456,  943,    4 >>,
       << 3112, 4173, 7386, 1108,    4 >>, <<  916, 5045, 3438, 1271,    4 >>,
       << 5327, 6391, 3472, 1431,    4 >>, << 6719, 3359, 8308, 1588,    4 >> >>[k]

\* triScore, doubled (so that the halving is exact): its sign and its
\* magnitude, 2 * |0.5 * (logNxy + logNyz) - logNxyz|.
triScore(t, di, tri) ==
    LET nxy == CopiesIn(<< t[1], t[2] >>, di) - 1
        nyz == CopiesIn(<< t[2], t[3] >>, di) - 1
        nxyz == CopiesIn(t, tri) - 1
    IN IF nxy = 0 \/ nyz = 0 \/ nxyz = 0 THEN [neg |-> FALSE, mag |-> BigOf(0)]
       ELSE LET pair == BigAdd(Ln(nxy), Ln(nyz))
                twice == BigAdd(Ln(nxyz), Ln(nxyz))
            IN IF BigLeq(twice, pair)
               THEN [neg |-> FALSE, mag |-> BigSub(pair, twice)]
               ELSE [neg |-> TRUE, mag |-> BigSub(twice, pair)]

\* The sum of the squares of the doubled indices of a word's trigrams, in
\* units of BigBase^-(2 * LnFrac); an index of zero adds nothing.
RECURSIVE sumSquares(_, _, _)
sumSquares(ts, di, tri) ==
    IF ts = << >> THEN BigOf(0)
    ELSE LET i == triScore(Head(ts), di, tri).mag
         IN IF BigIsZero(i) THEN sumSquares(Tail(ts), di, tri)
            ELSE BigAdd(BigMul(i, i), sumSquares(Tail(ts), di, tri))

\* s * s * den <= num.
sqLeq(s, den, num) == BigLeq(BigMul(BigMul(den, BigOf(s)), BigOf(s)), num)

\* The largest s in lo..hi with s * s * den <= num, by bisection.
RECURSIVE isqrtQuot(_, _, _, _)
isqrtQuot(num, den, lo, hi) ==
    IF lo = hi THEN lo
    ELSE LET mid == (lo + hi + 1) \div 2
         IN IF sqLeq(mid, den, num)
            THEN isqrtQuot(num, den, mid, hi)
            ELSE isqrtQuot(num, den, lo, mid - 1)

\* A power of two hi >= p with hi * hi * den > num.  Scores stay below 2^30:
\* with counts up to 64 no index is closer to zero than 0.5 * ln(64 / 63).
RECURSIVE sqAbove(_, _, _)
sqAbove(num, den, p) ==
    IF p < 1073741824 /\ sqLeq(p, den, num) THEN sqAbove(num, den, 2 * p) ELSE p

\* What int(+Inf) gives is left to the implementation by the language: the
\* smallest int on amd64, the largest on arm64.  The model's integers are 32
\* bits wide, so the two stand for math.MinInt64 and math.MaxInt64.
MinInt == -2147483647
MaxInt == 2147483647

\* int(score(word)): 10 / sqrt(sumOfSquares / n), truncated.  With every index
\* zero the quotient is +Inf, and the conversion gives inf.  Otherwise
\* 10 / sqrt(sum / n) = sqrt(400 * n * BigBase^(2 * LnFrac) / sq), sq the sum of
\* the squares of the doubled indices.
score(word, di, tri, inf) ==
    LET ts == scanTrigrams(word)
        sq == sumSquares(ts, di, tri)
        num == [k \in 1..(2 * LnFrac) |-> 0] \o BigOf(400 * Len(ts))
    IN IF BigIsZero(sq) THEN inf
       ELSE LET hi == sqAbove(num, sq, 1)
            IN isqrtQuot(num, sq, hi \div 2, hi - 1)

\* The second loop of stats: every word not known by its lower-cased form gets
\* its score.
scoreWords(ws, knownSet, di, tri, inf) ==
    [k \in 1..Len(ws) |->
        IF ws[k].lower \in knownSet THEN ws[k]
        ELSE [ws[k] EXCEPT !.score = score(ws[k].text, di, tri, inf)]]

---------------------------------------------------------------------------
(* The report: Word.String, repeats, spell.                                *)

\* A printed line: Word.String() and what follows it.  A score of zero is not
\* printed.
Line(kind, w) ==
    [ kind |-> kind, file |-> w.file, lineNum |-> w.lineNum, byteNum |-> w.byteNum,
      hasScore |-> w.score # 0, score |-> w.score, text |-> w.text ]

\* The line read prints on standard output before os.Exit(2).
ErrorLine(file) ==
    [ kind |-> "error", file |-> file, lineNum |-> 0, byteNum |-> 0,
      hasScore |-> FALSE, score |-> 0, text |-> << >> ]

\* The loop of repeats: the lines printed for the words from k on.
RECURSIVE repeatLoop(_, _, _)
repeatLoop(ws, k, prev) ==
    IF k > Len(ws) THEN << >>
    ELSE (IF ws[k].lower = prev THEN << Line("repeats", ws[k]) >> ELSE << >>)
         \o repeatLoop(ws, k + 1, ws[k].lower)

\* repeats comparing the original texts instead of the lower-cased ones.
RECURSIVE repeatLoopByText(_, _, _)
repeatLoopByText(ws, k, prev) ==
    IF k > Len(ws) THEN << >>
    ELSE (IF ws[k].text = prev THEN << Line("repeats", ws[k]) >> ELSE << >>)
         \o repeatLoopByText(ws, k + 1, ws[k].text)

repeatsByText(ws, off) == IF off THEN << >> ELSE repeatLoopByText(ws, 1, << >>)

repeats(ws, off) == IF off THEN << >> ELSE repeatLoop(ws, 1, << >>)

\* ByWord.Less and ByScore.Less.
ByWordLess(w1, w2) == StrLess(w1.text, w2.text)
ByScoreLess(w1, w2) == w1.score > w2.score

\* The orders of ws with its words rearranged.
Rearranged(ws) ==
    { [i \in 1..Len(ws) |-> ws[f[i]]] :
        f \in { g \in [1..Len(ws) -> 1..Len(ws)] :
                  \A i, j \in 1..Len(ws) : i # j => g[i] # g[j] } }

\* What sort.Sort may leave: sort.Sort is not stable, so any order in which no
\* word is Less than one before it.
SortedByWord(ws) ==
    { p \in Rearranged(ws) : \A i, j \in 1..Len(ws) : i < j => ~ByWordLess(p[j], p[i]) }
SortedByScore(ws) ==
    { p \in Rearranged(ws) : \A i, j \in 1..Len(ws) : i < j => ~ByScoreLess(p[j], p[i]) }

\* The uniq loop of spell over a list sorted by text, from k on.
RECURSIVE uniqLoop(_, _, _, _)
uniqLoop(ws, knownSet, k, prev) ==
    IF k > Len(ws) THEN << >>
    ELSE IF ws[k].text = prev THEN uniqLoop(ws, knownSet, k + 1, prev)
    ELSE IF ws[k].lower \in knownSet THEN uniqLoop(ws, knownSet, k + 1, prev)
    ELSE << ws[k] >> \o uniqLoop(ws, knownSet, k + 1, ws[k].text)

\* uniq with the test against prev left out: only known words are dropped.
RECURSIVE uniqKeepingDuplicates(_, _)
uniqKeepingDuplicates(ws, knownSet) ==
    IF ws = << >> THEN << >>
    ELSE (IF Head(ws).lower \in knownSet THEN << >> ELSE << Head(ws) >>)
         \o uniqKeepingDuplicates(Tail(ws), knownSet)

uniq(ws, knownSet) == uniqLoop(ws, knownSet, 1, << Space >>)

\* The printing loop of spell over a list sorted by score, from k on.
RECURSIVE printLoop(_, _, _, _)
printLoop(ws, k, n, t) ==
    IF k > Len(ws) THEN << >>
    ELSE IF k - 1 >= n THEN << >>
    ELSE IF ws[k].score < t THEN << >>
    ELSE << Line("typo", ws[k]) >> \o printLoop(ws, k + 1, n, t)

\* The printing loop with the test i > n for i >= n.
printTyposOneMore(ws, n, t) == printLoop(ws, 1, n + 1, t)

\* The printing loop of spell from the first word.
printTypos(ws, n, t) == printLoop(ws, 1, n, t)

---------------------------------------------------------------------------
(* main.                                                                   *)

knownWordsFiles == << "words", "w2006.txt" >>

\* bufio.ScanWords: the space-separated words of a file's content.
RECURSIVE ScanWords(_)
ScanWords(content) ==
    IF content = << >> THEN << >>
    ELSE IF IsSpace(Head(content)) THEN ScanWords(Tail(content))
    ELSE LET n == IF \E i \in 1..Len(content) : IsSpace(content[i])
                  THEN (CHOOSE i \in 1..Len(content) :
                            IsSpace(content[i]) /\ \A j \in 1..(i - 1) : ~IsSpace(content[j])) - 1
                  ELSE Len(content)
         IN << Slice(content, 0, n) >> \o ScanWords(SliceFrom(content, n))

Range(s) == { s[i] : i \in 1..Len(s) }

\* All texts over an alphabet, up to a length.
Texts(alphabet, n) == UNION { [1..k -> alphabet] : k \in 0..n }

\* What a known-words file holds when it can be read: "A" and "aa", one a line.
KnownContents == { << 65, Newline, 97, 97, Newline >> }

\* What the file system may answer for a file.
FileStatus == { "missing", "unreadable", "ok" }

\* One turn of main's loop over knownWordsFiles: getPath, then read.  A file
\* getPath does not find is a warning; one that read cannot open or read ends
\* the process in os.Exit(2).
LoadKnown ==
    /\ pc = "known"
    /\ \E st \in FileStatus, content \in KnownContents :
         /\ st # "ok" => content = CHOOSE c \in KnownContents : TRUE
         /\ knownFS' = Append(knownFS, st)
         /\ stderr' = IF st = "missing" THEN Append(stderr, knownWordsFiles[knownIdx]) ELSE stderr
         /\ stdout' = IF st = "unreadable" THEN Append(stdout, ErrorLine(knownWordsFiles[knownIdx]))
                      ELSE stdout
         /\ known' = IF st = "ok" THEN known \cup Range(ScanWords(content)) ELSE known
         /\ pc' = IF st = "unreadable" THEN "exit"
                  ELSE IF knownIdx = Len(knownWordsFiles) THEN "add" ELSE "known"
         /\ exitCode' = IF st = "unreadable" THEN 2 ELSE exitCode
         /\ knownIdx' = IF st = "unreadable" THEN knownIdx ELSE knownIdx + 1
    /\ UNCHANGED << nTypos, noRepeats, threshold, filterHTML, input, words,
                    diCounts, triCounts, infAsInt >>

\* main's call of add on the input file: read, then the tokenizer.
Add ==
    /\ pc = "add"
    /\ LET r == add(words, input.name, input.content, filterHTML)
       IN /\ pc' = IF input.status # "ok" THEN "exit" ELSE IF r.panic THEN "panic" ELSE "repeats"
          /\ exitCode' = IF input.status # "ok" \/ r.panic THEN 2 ELSE exitCode
          /\ stdout' = IF input.status # "ok" THEN Append(stdout, ErrorLine(input.name)) ELSE stdout
          /\ words' = IF input.status # "ok" THEN words ELSE r.ws
    /\ UNCHANGED << nTypos, noRepeats, threshold, filterHTML, knownIdx, knownFS, known,
                    input, diCounts, triCounts, infAsInt, stderr >>

Repeats ==
    /\ pc = "repeats"
    /\ stdout' = stdout \o repeats(words, noRepeats)
    /\ pc' = "stats"
    /\ UNCHANGED << exitCode, nTypos, noRepeats, threshold, filterHTML, knownIdx, knownFS,
                    known, input, words, diCounts, triCounts, infAsInt, stderr >>

Stats ==
    /\ pc = "stats"
    /\ \E inf \in { MinInt, MaxInt } :
         /\ infAsInt' = inf
         /\ diCounts' = countDigrams(diCounts, words, 1)
         /\ triCounts' = countTrigrams(triCounts, words, 1)
         /\ words' = scoreWords(words, known, diCounts', triCounts', inf)
    /\ pc' = "spell"
    /\ UNCHANGED << exitCode, nTypos, noRepeats, threshold, filterHTML, knownIdx, knownFS,
                    known, input, stderr, stdout >>

Spell ==
    /\ pc = "spell"
    /\ \E byWord \in SortedByWord(words) :
         \E byScore \in SortedByScore(uniq(byWord, known)) :
            /\ words' = byScore
            /\ stdout' = stdout \o printTypos(byScore, nTypos, threshold)
    /\ pc' = "done"
    /\ exitCode' = 0
    /\ UNCHANGED << nTypos, noRepeats, threshold, filterHTML, knownIdx, knownFS, known,
                    input, diCounts, triCounts, infAsInt, stderr >>

Next == LoadKnown \/ Add \/ Repeats \/ Stats \/ Spell

\* The state when main starts, flag.Parse done: the flags and the primary input
\* are the run's inputs.
InitWith(contents, ns, ts, rs, hs) ==
    /\ pc = "known"
    /\ exitCode = -1
    /\ nTypos \in ns
    /\ threshold \in ts
    /\ noRepeats \in rs
    /\ filterHTML \in hs
    /\ knownIdx = 1
    /\ knownFS = << >>
    /\ known = {}
    /\ input \in [ name : { "f" }, status : { "ok", "unreadable" }, content : contents ]
    /\ input.status = "unreadable" => input.content = << >>
    /\ words = << >>
    /\ diCounts = EmptyBag
    /\ triCounts = EmptyBag
    /\ infAsInt = 0
    /\ stderr = << >>
    /\ stdout = << >>

\* The scoring specification: inputs over a, A, '.' and ' ', the flags at their
\* defaults.
Init == InitWith(Texts({ 97, 65, Dot, Space }, MaxLen), { 50 }, { 10 }, { FALSE }, { FALSE })
Spec == Init /\ [][Next]_vars

\* The repeats specification: inputs over a, A and ' ', with -r drawn.
InitRepeats == InitWith(Texts({ 97, 65, Space }, MaxLen), { 50 }, { 10 }, BOOLEAN, { FALSE })
SpecRepeats == InitRepeats /\ [][Next]_vars

\* The report specification: inputs over a, A and '\n', with -n and -t drawn.
InitReport ==
    InitWith(Texts({ 97, 65, Newline }, MaxLen), { -1, 1, 2 }, { 10, 29 }, { FALSE }, { FALSE })
SpecReport == InitReport /\ [][Next]_vars

\* The HTML specification: inputs over a, '<', '>' and '/', with -html set.
InitHTML == InitWith(Texts({ 97, Lt, Gt, 47 }, MaxLen), { 50 }, { 10 }, { FALSE }, { TRUE })
SpecHTML == InitHTML /\ [][Next]_vars

---------------------------------------------------------------------------
(* The claims.                                                             *)

Min(x, y) == IF x < y THEN x ELSE y
Max(x, y) == IF x > y THEN x ELSE y

\* A word with the boundary markers the specification describes around it.
Padded(word) == << Dot, Dot >> \o word \o << Dot >>

\* The trigrams of a padded word from the k-th on, as consecutive windows.
Windows(word, first) ==
    [k \in 1..(Len(word) + 2 - first) |->
        << Padded(word)[k + first - 1], Padded(word)[k + first], Padded(word)[k + first + 1] >>]

RECURSIVE TotalLetters(_)
TotalLetters(ws) == IF ws = << >> THEN 0 ELSE Len(Head(ws).text) + TotalLetters(Tail(ws))

\* C1 as stated: once stats has run, the trigram walk of every word of L code
\* points has visited L+1 trigrams, [start,start,c0], [start,c0,c1], ...,
\* [c(L-2),c(L-1),end].
C1_WalkVisitsLPlusOne ==
    pc = "spell" =>
        \A k \in DOMAIN words : scanTrigrams(words[k].text) = Windows(words[k].text, 1)

\* C1 as amended: once stats has run, the trigram walk of every word of L >= 1
\* code points has visited exactly L trigrams, [start,c0,c1], ...,
\* [c(L-2),c(L-1),end] (for a one-character word c the single trigram
\* [start,c,end]); [start,start,c0] only primes the walk, and the trigram table
\* holds one count per letter of the corpus.
C1_WalkVisitsL ==
    pc = "spell" =>
        /\ \A k \in DOMAIN words :
              /\ Len(scanTrigrams(words[k].text)) = Len(words[k].text)
              /\ scanTrigrams(words[k].text) = Windows(words[k].text, 2)
        /\ BagCardinality(triCounts) = TotalLetters(words)

\* stats has run over a one-character word and a word of three or more.
C1_Witness ==
    /\ pc = "spell"
    /\ \E k \in DOMAIN words : Len(words[k].text) = 1
    /\ \E k \in DOMAIN words : Len(words[k].text) >= 3

AllIndicesZero(w) ==
    \A i \in DOMAIN scanTrigrams(w.text) :
        BigIsZero(triScore(scanTrigrams(w.text)[i], diCounts, triCounts).mag)

\* C2: once stats has run, a word that is not known and whose trigrams all have
\* index 0 has the stored score 0.
C2_AllZeroIndicesScoreZero ==
    pc = "spell" =>
        \A k \in DOMAIN words :
            (words[k].text \notin known /\ words[k].lower \notin known /\ AllIndicesZero(words[k]))
                => words[k].score = 0

\* C3: a word whose original text is in the known-word set is skipped by the
\* scoring pass (its score stays 0) and is never printed by the report.
C3_VerbatimKnownNeverScoredNorPrinted ==
    /\ pc = "spell" => \A k \in DOMAIN words : words[k].text \in known => words[k].score = 0
    /\ \A i \in DOMAIN stdout : stdout[i].kind = "typo" => stdout[i].text \notin known

\* The lines a step has printed.
Printed == SubSeq(stdout', Len(stdout) + 1, Len(stdout'))

\* The texts that survive the dedup pass and reach the threshold: those of the
\* words that are not known by their lower-cased form and score at least t.
Candidates ==
    { words[i].text : i \in { j \in DOMAIN words :
                                words[j].lower \notin known /\ words[j].score >= threshold } }

PrintedAboveThresholdInOrder ==
    /\ \A i \in DOMAIN Printed : Printed[i].kind = "typo" /\ Printed[i].score >= threshold
    /\ \A i, j \in DOMAIN Printed : i < j => Printed[i].score >= Printed[j].score

\* C4 as stated: spell prints exactly min(n, k) lines, k the number of
\* deduplicated non-known words with score >= t; every printed word has score
\* >= t and the printed scores do not increase.
C4_PrintsMinNK ==
    [][pc = "spell" =>
         /\ Len(Printed) = Min(nTypos, Cardinality(Candidates))
         /\ PrintedAboveThresholdInOrder]_vars

\* C4 as amended: spell prints exactly min(max(n, 0), k) lines (none when n is
\* negative), k the number of deduplicated non-known words with score >= t;
\* every printed word has score >= t and the printed scores do not increase.
C4_PrintsMinNKFromZero ==
    [][pc = "spell" =>
         /\ Len(Printed) = Min(Max(nTypos, 0), Cardinality(Candidates))
         /\ PrintedAboveThresholdInOrder]_vars

TypoLines == SelectSeq(stdout, LAMBDA l : l.kind = "typo")

\* spell has printed one line with -n 1 although two words with different
\* scores reached the threshold.
C4_Witness ==
    /\ pc = "done"
    /\ nTypos = 1
    /\ Len(TypoLines) = 1
    /\ \E i, j \in DOMAIN words :
          /\ words[i].score >= threshold
          /\ words[j].score >= threshold
          /\ words[i].score # words[j].score

\* C5: after the dedup pass of spell, a text whose lower-cased form is not in
\* the known-word set is carried by exactly one Word of the list, one of its
\* occurrences before the pass; a text whose lower-cased form is known is
\* carried by none; and no two lines of the report carry the same text.
C5_OneWordPerText ==
    [][pc = "spell" =>
         /\ \A i \in DOMAIN words :
              LET left == { j \in DOMAIN words' : words'[j].text = words[i].text }
              IN IF words[i].lower \in known THEN left = {}
                 ELSE /\ Cardinality(left) = 1
                      /\ \E j \in left : \E h \in DOMAIN words : words'[j] = words[h]
         /\ \A j \in DOMAIN words' : \E i \in DOMAIN words : words'[j] = words[i]
         /\ \A i, j \in DOMAIN Printed : i # j => Printed[i].text # Printed[j].text]_vars

\* spell has run on "a a aA" with "aa" known: one Word is left, an "a".
C5_Witness ==
    /\ pc = "done"
    /\ input.content = << 97, Space, 97, Space, 97, 65 >>
    /\ << 97, 97 >> \in known
    /\ Len(words) = 1
    /\ words[1].text = << 97 >>

\* The indices of a set of naturals, in increasing order.
RECURSIVE Ascending(_)
Ascending(S) ==
    IF S = {} THEN << >>
    ELSE LET m == CHOOSE x \in S : \A y \in S : x <= y
         IN << m >> \o Ascending(S \ { m })

\* The words that repeat the word before them, under lower-casing.
RepeatIndices ==
    Ascending({ i \in 2..Len(words) : ToLower(words[i].text) = ToLower(words[i - 1].text) })

\* C6: once repeats has run, the lines printed are, in corpus order, exactly the
\* words whose lower-cased form equals that of the word before them, each with
\* its own location; with -r nothing is printed.
C6_RepeatsAreAdjacentEqualWords ==
    pc = "stats" =>
        IF noRepeats THEN stdout = << >>
        ELSE stdout = [k \in 1..Len(RepeatIndices) |-> Line("repeats", words[RepeatIndices[k]])]

\* repeats has run on "A a aa": one repeat, the second word, at byte 3.
C6_Witness ==
    /\ pc = "stats"
    /\ ~noRepeats
    /\ input.content = << 65, Space, 97, Space, 97, 97 >>
    /\ Len(stdout) = 1
    /\ stdout[1].byteNum = 3
    /\ stdout[1].text = << 97 >>

\* The keys a word gives that hold a boundary marker, and those that hold only
\* the word's own characters.
BoundaryDigrams(word) == { addDigrams(word)[1], addDigrams(word)[Len(word) + 1] }
InteriorDigrams(word) == { addDigrams(word)[i] : i \in 2..Len(word) }
BoundaryTrigrams(word) ==
    { scanTrigrams(word)[1], scanTrigrams(word)[Len(scanTrigrams(word))] }
InteriorTrigrams(word) == { scanTrigrams(word)[i] : i \in 2..(Len(scanTrigrams(word)) - 1) }

\* C7: no digram or trigram key counted for a word boundary equals a key
\* counted for characters in the interior of a word.
C7_BoundaryKeysDistinct ==
    pc = "spell" =>
        \A i, j \in DOMAIN words :
            /\ BoundaryDigrams(words[i].text) \cap InteriorDigrams(words[j].text) = {}
            /\ BoundaryTrigrams(words[i].text) \cap InteriorTrigrams(words[j].text) = {}

\* C8: a known-words file that is missing or unreadable never ends the run:
\* the process exits non-zero only on the primary input, after both known-words
\* files were passed, and a known-words file that is not read adds no entry.
C8_KnownFileNeverFatal ==
    /\ pc = "exit" => (knownIdx > Len(knownWordsFiles) /\ input.status # "ok")
    /\ (\A i \in DOMAIN knownFS : knownFS[i] # "ok") => known = {}
    /\ pc = "done" => exitCode = 0

\* A text read from its end: reversed, with '<' and '>' exchanged.
Mirror(text) ==
    [i \in 1..Len(text) |->
        LET c == text[Len(text) + 1 - i]
        IN IF c = Lt THEN Gt ELSE IF c = Gt THEN Lt ELSE c]

\* The texts addWord applies trailingHTMLLen to: each token of the input,
\* trimmed of punctuation and stripped of its leading tags.
TrailingArgs ==
    { SliceFrom(TrimRightPunct(TrimLeftPunct(tok)),
                leadingHTMLLen(TrimRightPunct(TrimLeftPunct(tok)))) :
        tok \in Range(ScanWords(input.content)) }

\* C9: with -html, for every token trailingHTMLLen gives the total length of
\* the consecutive tags at the end of the text, as leadingHTMLLen does at the
\* start.
C9_TrailingMirrorsLeading ==
    (filterHTML /\ pc \in { "repeats", "panic" }) =>
        \A text \in TrailingArgs : trailingHTMLLen(text) = leadingHTMLLen(Mirror(text))

\* C10: with -html, the tag lengths never exceed the length of the text they
\* are computed on, and add never ends in a run-time panic.
C10_NoSliceOutOfRange ==
    /\ pc # "panic"
    /\ (filterHTML /\ pc = "repeats") =>
          \A text \in TrailingArgs : trailingHTMLLen(text) <= Len(text)

=============================================================================
